---- MODULE Spec2Model ----
(***************************************************************************)
(* Model of Raster/Seurasaari_trees.ipynb: the band-math, NDVI and         *)
(* land-cover cells of the notebook, executed top to bottom.               *)
(*                                                                         *)
(* Floating-point samples are modelled as exact rationals <<n, d>> in      *)
(* lowest terms with d > 0; the IEEE specials are the pairs with d = 0:    *)
(* NaN = <<0,0>>, +inf = <<1,0>>, -inf = <<-1,0>>.  Signed zeros and       *)
(* rounding of float64 are not modelled.                                   *)
(* A 2-D array is a sequence of rows, each row a sequence of samples.      *)
(* Cells are numbered by their index in the notebook's "cells" list.       *)
(* A rasterio dataset object is an entry of handles; the names s2open,     *)
(* seurasaariS2, corine and ndvi hold what is read through the object they *)
(* are bound to.  SpecRun is the run of the whole notebook; Spec, SpecNdvi,*)
(* SpecCategory and SpecForest run segments of it over wider inputs.       *)
(***************************************************************************)
EXTENDS Integers, Sequences, FiniteSets, TLC

VARIABLES
    pc,                \* index of the next notebook cell to execute
    err,               \* name of the exception that stopped the run, or "none"
    s2open,            \* Helsinki Sentinel-2 dataset: band number -> raw uint16 array
    nir, red, green,   \* the notebook's band arrays (cells 13, 15, 22)
    arrays,            \* the numpy array objects behind nir, red and green, in order of creation
    names,             \* which array object each of the names nir, red, green is bound to
    falsecolor_stack,  \* np.dstack((nir, red, green))
    stretchnir, stretchred, stretchgreen,   \* cell 29
    seurasaariS2,      \* cropped Seurasaari dataset: band number -> raw uint16 array
    ss_red, ss_nir,    \* cell 49
    errstate,          \* numpy's process-wide floating-point error handling (np.seterr)
    fpwarnings,        \* floating-point RuntimeWarnings emitted so far
    ndvi,              \* cell 52
    lookup_table,      \* rows of the Corine class spreadsheet
    cat_dict,          \* cell 65
    zstats,            \* cell 65: list with one zonal record per polygon
    percentages,       \* cell 67: value of stb.get_zonal_stats_percentage(zstats)
    corine,            \* Corine dataset: [band |-> array of codes, nodata |-> code]
    forestcodes,       \* cell 69
    corine_array,      \* cell 71
    forestmask,        \* cell 73
    disk,              \* the raster and vector files in ./data: path -> content
    handles,           \* the rasterio dataset objects in order of opening: [path, open]
    bound,             \* which dataset object each of the names s2open, seurasaariS2, corine, ndvi is bound to
    stale_reads,       \* <<cell, dataset object>> for every read of a dataset object that was closed
    stretchstack,      \* cell 31
    ss_falsecolorstack, \* cell 46
    seurasaari_df,     \* cells 33, 36: [crs, geometry]
    seurasaari_coords, \* cell 38
    seurasaariS2_array, seurasaariS2_transform,   \* cell 39
    seurasaariS2_meta, \* cell 41
    ndvi_meta,         \* cell 56
    mask_calls,        \* the calls of rasterio.mask.mask so far
    shapes,            \* cell 77
    ndvi_forest, ndvi_forest_transform,   \* cell 77
    printed            \* cell 77: the value of np.nanmean(ndvi_forest)

helsinkiVars == <<s2open, nir, red, green, arrays, names, falsecolor_stack,
                  stretchnir, stretchred, stretchgreen>>
ndviVars     == <<seurasaariS2, ss_red, ss_nir, errstate, fpwarnings, ndvi>>
categoryVars == <<lookup_table, cat_dict, zstats, percentages>>
forestVars   == <<corine, forestcodes, corine_array, forestmask>>
ioVars       == <<disk, handles, bound, stale_reads>>
cropVars     == <<stretchstack, ss_falsecolorstack, seurasaari_df, seurasaari_coords, seurasaariS2_array,
                  seurasaariS2_transform, seurasaariS2_meta, ndvi_meta, mask_calls>>
meanVars     == <<shapes, ndvi_forest, ndvi_forest_transform, printed>>
vars == <<pc, err, helsinkiVars, ndviVars, categoryVars, forestVars,
          ioVars, cropVars, meanVars>>

(***************************************************************************)
(* Bounds                                                                  *)
(***************************************************************************)
\* number of pixels per band of the Helsinki Sentinel-2 raster (one row)
NumPixels == 2
\* largest number of pixels of an operand of the NDVI expression
MaxOperandPixels == 3
\* largest number of rows of the land-cover class table
MaxRows == 3
\* largest pixel count of one class in a zonal record
MaxCount == 3
\* largest number of pixels of the Corine raster
MaxCorinePixels == 3
\* number of pixels per band of the Helsinki raster in the run of the whole notebook
RunPixels == 3

(***************************************************************************)
(* Program constants                                                       *)
(***************************************************************************)
\* reflectance scale factor of "red = red / 10000"
Scale == 10000

(***************************************************************************)
(* float64 arithmetic                                                      *)
(***************************************************************************)
NaN    == <<0, 0>>
PosInf == <<1, 0>>
NegInf == <<-1, 0>>

Abs(x) == IF x < 0 THEN -x ELSE x
Sign(x) == IF x < 0 THEN -1 ELSE IF x = 0 THEN 0 ELSE 1

RECURSIVE GCD(_, _)
GCD(a, b) == IF b = 0 THEN a ELSE GCD(b, a % b)

\* the float n/d of two integers, d # 0 (lowest terms, positive denominator)
Rat(n, d) ==
    LET g == GCD(Abs(n), Abs(d))
    IN  <<(Sign(d) * n) \div g, Abs(d) \div g>>

IsNaN(x)    == x = NaN
IsInf(x)    == x[2] = 0 /\ x[1] # 0
IsFinite(x) == x[2] > 0

Neg(x) == <<-x[1], x[2]>>

\* x + y
FAdd(x, y) ==
    IF IsNaN(x) \/ IsNaN(y) THEN NaN
    ELSE IF IsInf(x) /\ IsInf(y) THEN (IF x = y THEN x ELSE NaN)
    ELSE IF IsInf(x) THEN x
    ELSE IF IsInf(y) THEN y
    ELSE Rat(x[1] * y[2] + y[1] * x[2], x[2] * y[2])

\* x - y
FSub(x, y) == FAdd(x, Neg(y))

\* x * y for finite operands
FMul(x, y) == Rat(x[1] * y[1], x[2] * y[2])

\* x / y
FDiv(x, y) ==
    IF IsNaN(x) \/ IsNaN(y) THEN NaN
    ELSE IF IsInf(x) THEN (IF IsInf(y) THEN NaN
                           ELSE IF y[1] < 0 THEN Neg(x) ELSE x)
    ELSE IF IsInf(y) THEN Rat(0, 1)
    ELSE IF y[1] = 0 THEN (IF x[1] = 0 THEN NaN
                           ELSE IF x[1] > 0 THEN PosInf ELSE NegInf)
    ELSE Rat(x[1] * y[2], x[2] * y[1])

\* the floating-point exceptions x / y signals
FDivFlags(x, y) ==
    IF IsNaN(x) \/ IsNaN(y) THEN {}
    ELSE IF IsInf(x) /\ IsInf(y) THEN {"invalid"}
    ELSE IF IsFinite(x) /\ IsFinite(y) /\ y[1] = 0
         THEN (IF x[1] = 0 THEN {"invalid"} ELSE {"divide"})
    ELSE {}

\* the floating-point exceptions x + y signals
FAddFlags(x, y) ==
    IF IsInf(x) /\ IsInf(y) /\ x # y THEN {"invalid"} ELSE {}

\* comparisons; every comparison with NaN is false
FLt(x, y) ==
    /\ ~IsNaN(x) /\ ~IsNaN(y)
    /\ IF IsFinite(x) /\ IsFinite(y) THEN x[1] * y[2] < y[1] * x[2]
       ELSE x # y /\ (x = NegInf \/ y = PosInf)
FEq(x, y) == ~IsNaN(x) /\ ~IsNaN(y) /\ x = y
FLe(x, y) == FLt(x, y) \/ FEq(x, y)
FGt(x, y) == FLt(y, x)

(***************************************************************************)
(* numpy arrays                                                            *)
(***************************************************************************)
Shape(A) == <<Len(A), IF Len(A) = 0 THEN 0 ELSE Len(A[1])>>

\* all arrays of the given shape over a set of samples
Arrays(h, w, S) == [1..h -> [1..w -> S]]

\* the index set of an array
Indices(A) == {<<i, j>> : i \in 1..Len(A), j \in 1..Shape(A)[2]}

\* elementwise application
Map(F(_), A) == [i \in 1..Len(A) |-> [j \in 1..Len(A[i]) |-> F(A[i][j])]]

\* raw digital numbers sampled from the uint16 range: the no-data value 0,
\* a reflectance below 1 and an artefact above 1
RawSamples == {0, Scale \div 2, Scale + 2000}
RawBands == Arrays(1, NumPixels, RawSamples)

\* band.astype(float): uint16 -> float64
ToFloat(v) == Rat(v, 1)


At(A, p) == A[p[1]][p[2]]

(***************************************************************************)
(* Cells 13-29: the Helsinki bands, reflectance and contrast stretch       *)
(***************************************************************************)
\* "red = red / 10000": a new float64 array
Rescale(A) == Map(LAMBDA v : FDiv(ToFloat(v), ToFloat(Scale)), A)

\* the replacement left out: zeros stay zeros
ReplaceZeroWithNaN_Omitted(A) == A

\* "red[red == 0] = np.nan"
ReplaceZeroWithNaN(A) == Map(LAMBDA x : IF FEq(x, Rat(0, 1)) THEN NaN ELSE x, A)

\* the clamp written as "keep what is <= 1": no-data fails the test too
ClampAboveOne_KeepLe(A) == Map(LAMBDA x : IF FLe(x, Rat(1, 1)) THEN x ELSE Rat(1, 1), A)

\* "red[red>1] =1"
ClampAboveOne(A) == Map(LAMBDA x : IF FGt(x, Rat(1, 1)) THEN Rat(1, 1) ELSE x, A)

\* np.dstack((nir, red, green)): a copy of the three bands
DStack(a, b, c) == <<a, b, c>>

\* stb.stretch: percentile bounds of the contrast stretch
LowPercentile == 2
HighPercentile == 98

\* positions of the samples that are not no-data
Valid(A) == {p \in Indices(A) : ~IsNaN(At(A, p))}

\* the k-th smallest valid sample of A, 1 <= k <= number of valid samples
OrderStat(A, k) ==
    CHOOSE v \in {At(A, p) : p \in Valid(A)} :
        /\ Cardinality({p \in Valid(A) : FLt(At(A, p), v)}) < k
        /\ Cardinality({p \in Valid(A) : FLe(At(A, p), v)}) >= k

\* the q-th percentile of the valid samples, linearly interpolated between
\* the two nearest order statistics; Valid(A) is not empty
Percentile(A, q) ==
    LET n   == Cardinality(Valid(A))
        pos == q * (n - 1)
        k   == pos \div 100
        lo  == OrderStat(A, k + 1)
        hi  == OrderStat(A, IF k + 2 <= n THEN k + 2 ELSE n)
    IN  FAdd(lo, FMul(Rat(pos % 100, 100), FSub(hi, lo)))

\* np.clip(x, 0, 1)
Clip01(x) ==
    IF FLt(x, Rat(0, 1)) THEN Rat(0, 1)
    ELSE IF FGt(x, Rat(1, 1)) THEN Rat(1, 1) ELSE x

\* stb.stretch(band)
Stretch(A) ==
    IF Valid(A) = {} THEN A
    ELSE LET low  == Percentile(A, LowPercentile)
             high == Percentile(A, HighPercentile)
         IN  IF low = high THEN A
             ELSE Map(LAMBDA x : IF IsNaN(x) THEN NaN
                                 ELSE Clip01(FDiv(FSub(x, low), FSub(high, low))), A)

\* a read through dataset object h after it was closed, in cell c: pixel data
\* cannot be read from a closed dataset
ReadOfClosed(c, h) ==
    /\ err' = "RasterioIOError"
    /\ stale_reads' = stale_reads \cup {<<c, h>>}

\* cell 13: read the raster values into numpy arrays
Cell13 ==
    /\ pc = 13 /\ err = "none"
    /\ IF handles[bound.s2open].open
       THEN /\ nir' = s2open[4]
            /\ red' = s2open[3]
            /\ green' = s2open[2]
            /\ arrays' = arrays \o <<nir', red', green'>>
            /\ names' = [nir |-> Len(arrays) + 1, red |-> Len(arrays) + 2,
                         green |-> Len(arrays) + 3]
            /\ pc' = 15
            /\ UNCHANGED <<err, stale_reads>>
       ELSE /\ ReadOfClosed(13, bound.s2open)
            /\ UNCHANGED <<pc, nir, red, green, arrays, names>>
    /\ UNCHANGED <<s2open, falsecolor_stack, stretchnir, stretchred, stretchgreen,
                   ndviVars, categoryVars, forestVars>>
    /\ UNCHANGED <<disk, handles, bound, cropVars, meanVars>>

\* cell 15: rescale the bands and replace 0 with np.nan
Cell15 ==
    /\ pc = 15 /\ err = "none"
    /\ red' = ReplaceZeroWithNaN(Rescale(red))
    /\ green' = ReplaceZeroWithNaN(Rescale(green))
    /\ nir' = ReplaceZeroWithNaN(Rescale(nir))
    /\ arrays' = arrays \o <<red', green', nir'>>
    /\ names' = [red |-> Len(arrays) + 1, green |-> Len(arrays) + 2, nir |-> Len(arrays) + 3]
    /\ pc' = 17
    /\ UNCHANGED <<err, s2open, falsecolor_stack, stretchnir, stretchred, stretchgreen,
                   ndviVars, categoryVars, forestVars>>
    /\ UNCHANGED <<ioVars, cropVars, meanVars>>

\* cell 17: the false colour stack
Cell17 ==
    /\ pc = 17 /\ err = "none"
    /\ falsecolor_stack' = DStack(nir, red, green)
    /\ pc' = 22
    /\ UNCHANGED <<err, s2open, nir, red, green, arrays, names,
                   stretchnir, stretchred, stretchgreen,
                   ndviVars, categoryVars, forestVars>>
    /\ UNCHANGED <<ioVars, cropVars, meanVars>>

\* cell 22: set all values > 1 to 1 and stack again
Cell22 ==
    /\ pc = 22 /\ err = "none"
    /\ red' = ClampAboveOne(red)
    /\ green' = ClampAboveOne(green)
    /\ nir' = ClampAboveOne(nir)
    /\ arrays' = [arrays EXCEPT ![names.red] = red', ![names.green] = green', ![names.nir] = nir']
    /\ falsecolor_stack' = DStack(nir', red', green')
    /\ pc' = 29
    /\ UNCHANGED <<err, s2open, names, stretchnir, stretchred, stretchgreen,
                   ndviVars, categoryVars, forestVars>>
    /\ UNCHANGED <<ioVars, cropVars, meanVars>>

\* cell 29 with the red band stretched from the nir array
Cell29_WrongBand ==
    /\ pc = 29 /\ err = "none"
    /\ stretchnir' = Stretch(nir)
    /\ stretchred' = Stretch(nir)
    /\ stretchgreen' = Stretch(green)
    /\ pc' = 31
    /\ UNCHANGED <<err, s2open, nir, red, green, arrays, names, falsecolor_stack,
                   ndviVars, categoryVars, forestVars>>
    /\ UNCHANGED <<ioVars, cropVars, meanVars>>

\* cell 29: contrast stretch of the three bands
Cell29 ==
    /\ pc = 29 /\ err = "none"
    /\ stretchnir' = Stretch(nir)
    /\ stretchred' = Stretch(red)
    /\ stretchgreen' = Stretch(green)
    /\ pc' = 31
    /\ UNCHANGED <<err, s2open, nir, red, green, arrays, names, falsecolor_stack,
                   ndviVars, categoryVars, forestVars>>
    /\ UNCHANGED <<ioVars, cropVars, meanVars>>

\* a variable the notebook has not assigned yet
Unset == <<>>

\* no array object bound to nir, red and green yet
Unbound == [nir |-> 0, red |-> 0, green |-> 0]

InitHelsinkiUnset ==
    /\ s2open = Unset /\ nir = Unset /\ red = Unset /\ green = Unset
    /\ arrays = <<>> /\ names = Unbound
    /\ falsecolor_stack = Unset
    /\ stretchnir = Unset /\ stretchred = Unset /\ stretchgreen = Unset

InitNdviUnset ==
    /\ seurasaariS2 = Unset /\ ss_red = Unset /\ ss_nir = Unset
    /\ errstate = Unset /\ fpwarnings = {} /\ ndvi = Unset

InitCategoryUnset ==
    /\ lookup_table = Unset /\ cat_dict = Unset /\ zstats = Unset /\ percentages = Unset

InitForestUnset ==
    /\ corine = Unset /\ forestcodes = {} /\ corine_array = Unset /\ forestmask = Unset

\* no dataset object bound to s2open, dest, seurasaariS2, corine and ndvi yet
NoHandle == [s2open |-> 0, dest |-> 0, seurasaariS2 |-> 0, corine |-> 0, ndvi |-> 0]

InitIoUnset ==
    /\ disk = Unset /\ handles = <<>> /\ bound = NoHandle /\ stale_reads = {}

InitCropUnset ==
    /\ stretchstack = Unset /\ ss_falsecolorstack = Unset
    /\ seurasaari_df = Unset /\ seurasaari_coords = Unset
    /\ seurasaariS2_array = Unset /\ seurasaariS2_transform = Unset
    /\ seurasaariS2_meta = Unset /\ ndvi_meta = Unset /\ mask_calls = <<>>

InitMeanUnset ==
    /\ shapes = Unset /\ ndvi_forest = Unset /\ ndvi_forest_transform = Unset
    /\ printed = Unset

\* the run from cell 13 to cell 29 over every Helsinki raster within the bounds
Init ==
    /\ pc = 13
    /\ err = "none"
    /\ s2open \in [2..4 -> RawBands]
    /\ nir = Unset /\ red = Unset /\ green = Unset
    /\ arrays = <<>> /\ names = Unbound
    /\ falsecolor_stack = Unset
    /\ stretchnir = Unset /\ stretchred = Unset /\ stretchgreen = Unset
    /\ InitNdviUnset /\ InitCategoryUnset /\ InitForestUnset
    /\ disk = Unset /\ stale_reads = {}
    /\ handles = <<[path |-> "s2file", open |-> TRUE]>>
    /\ bound = [NoHandle EXCEPT !.s2open = 1]
    /\ InitCropUnset /\ InitMeanUnset

Next == Cell13 \/ Cell15 \/ Cell17 \/ Cell22 \/ Cell29

Spec == Init /\ [][Next]_vars

\* X is the reflectance array of the raw band
NormalizedFrom(X, raw) ==
    \A p \in Indices(raw) :
        IF At(raw, p) = 0 THEN IsNaN(At(X, p))
        ELSE IsFinite(At(X, p)) /\ At(X, p)[1] * Scale = At(raw, p) * At(X, p)[2]

\* C1: after the rescaling cell and before the clamp, every sample of red,
\* green and nir is no-data exactly where the raw digital number is 0 and
\* equals raw / Scale everywhere else.
C1_Normalize ==
    pc \in {17, 22} =>
        /\ Shape(red) = Shape(s2open[3]) /\ NormalizedFrom(red, s2open[3])
        /\ Shape(green) = Shape(s2open[2]) /\ NormalizedFrom(green, s2open[2])
        /\ Shape(nir) = Shape(s2open[4]) /\ NormalizedFrom(nir, s2open[4])
C1_Witness ==
    /\ pc = 17
    /\ \E p, q \in Indices(red) :
          /\ At(s2open[3], p) = 0 /\ IsNaN(At(red, p))
          /\ At(s2open[3], q) > Scale /\ FGt(At(red, q), Rat(1, 1))

\* the low and the high percentile value of the band coincide
Degenerate(A) ==
    Valid(A) # {} /\ Percentile(A, LowPercentile) = Percentile(A, HighPercentile)
\* S is an admissible stretch of A in the degenerate and the no-data case
StretchKeeps(A, S) ==
    /\ Shape(S) = Shape(A)
    /\ Degenerate(A) => S = A
    /\ \A p \in Indices(A) : IsNaN(At(A, p)) => IsNaN(At(S, p))

\* C8: a band whose low and high percentile values coincide is returned
\* unchanged by the stretch, and every no-data sample of a band is still
\* no-data in its stretched band.
C8_StretchDegenerate ==
    pc = 31 =>
        /\ StretchKeeps(nir, stretchnir)
        /\ StretchKeeps(red, stretchred)
        /\ StretchKeeps(green, stretchgreen)
C8_Witness ==
    /\ pc = 31
    /\ Degenerate(red) /\ stretchred = red
    /\ \E p \in Indices(nir) : IsNaN(At(nir, p))
    /\ ~Degenerate(nir) \/ ~Degenerate(green)


\* C13: an array object, once created, keeps its contents in every later
\* step, so whoever holds it sees the same values before and after.
C13_NoMutation ==
    [][\A i \in DOMAIN arrays : arrays'[i] = arrays[i]]_vars

\* every sample is no-data or lies in (0, 1]
InUnitRange(A) ==
    \A p \in Indices(A) :
        IsNaN(At(A, p)) \/ (FGt(At(A, p), Rat(0, 1)) /\ FLe(At(A, p), Rat(1, 1)))
\* B is A with at most the samples above 1 changed
ClampedFrom(A, B) ==
    /\ Shape(B) = Shape(A)
    /\ \A p \in Indices(A) :
          /\ IsNaN(At(A, p)) => IsNaN(At(B, p))
          /\ FLe(At(A, p), Rat(1, 1)) => At(B, p) = At(A, p)
\* the sample ranges once cell 22 has run
C15_Range ==
    pc \in {29, 31} => InUnitRange(red) /\ InUnitRange(green) /\ InUnitRange(nir)
\* what cell 22 does to the three bands
C15_ClampStep ==
    pc = 22 /\ pc' = 29 =>
        ClampedFrom(red, red') /\ ClampedFrom(green, green') /\ ClampedFrom(nir, nir')

\* C15: after the rescaling and the clamp every sample of red, green and
\* nir is no-data or in (0, 1], and the clamp keeps no-data samples no-data
\* and leaves every sample that is <= 1 as it was.
C15_NormalizeThenClamp ==
    /\ []C15_Range
    /\ [][C15_ClampStep]_vars
C15_Witness ==
    /\ pc = 29
    /\ \E p, q, r \in Indices(red) :
          /\ At(s2open[3], p) > Scale /\ At(red, p) = Rat(1, 1)
          /\ At(s2open[3], q) = 0 /\ IsNaN(At(red, q))
          /\ At(s2open[4], r) = Scale \div 2 /\ At(nir, r) = Rat(1, 2)

(***************************************************************************)
(* Cells 50-52: numpy error handling and the NDVI band math                *)
(***************************************************************************)
Max(a, b) == IF a >= b THEN a ELSE b

\* numpy's error handling of a fresh interpreter, for the two exceptions a
\* division can signal
DefaultErrState == [divide |-> "warn", invalid |-> "warn"]

\* numpy broadcasting of two 2-D operands
Broadcastable(A, B) ==
    \A d \in 1..2 : Shape(A)[d] = Shape(B)[d] \/ Shape(A)[d] = 1 \/ Shape(B)[d] = 1
BroadcastShape(A, B) ==
    <<Max(Shape(A)[1], Shape(B)[1]), Max(Shape(A)[2], Shape(B)[2])>>
Elem(A, i, j) ==
    A[IF Shape(A)[1] = 1 THEN 1 ELSE i][IF Shape(A)[2] = 1 THEN 1 ELSE j]

\* a binary elementwise operation on broadcastable operands
Zip(F(_, _), A, B) ==
    [i \in 1..BroadcastShape(A, B)[1] |->
        [j \in 1..BroadcastShape(A, B)[2] |-> F(Elem(A, i, j), Elem(B, i, j))]]

\* the index with the difference divided by nir alone
NdviFormula_OverNir(n, r) == Zip(FDiv, Zip(FSub, n, r), n)

\* "(ss_nir - ss_red) / (ss_nir + ss_red)"
NdviFormula(n, r) == Zip(FDiv, Zip(FSub, n, r), Zip(FAdd, n, r))

\* the floating-point exceptions the three elementwise operations signal
NdviFlags(n, r) ==
    UNION {FAddFlags(Elem(n, p[1], p[2]), Neg(Elem(r, p[1], p[2])))
           \cup FAddFlags(Elem(n, p[1], p[2]), Elem(r, p[1], p[2]))
           \cup FDivFlags(FSub(Elem(n, p[1], p[2]), Elem(r, p[1], p[2])),
                          FAdd(Elem(n, p[1], p[2]), Elem(r, p[1], p[2])))
           : p \in (1..BroadcastShape(n, r)[1]) \X (1..BroadcastShape(n, r)[2])}

\* cell 50 with the errors turned into exceptions instead of being ignored
Cell50_Raise ==
    /\ pc = 50 /\ err = "none"
    /\ errstate' = [errstate EXCEPT !.divide = "raise", !.invalid = "raise"]
    /\ pc' = 52
    /\ UNCHANGED <<err, helsinkiVars, seurasaariS2, ss_red, ss_nir, fpwarnings, ndvi,
                   categoryVars, forestVars>>
    /\ UNCHANGED <<ioVars, cropVars, meanVars>>

\* cell 50: np.seterr(divide="ignore", invalid="ignore")
Cell50 ==
    /\ pc = 50 /\ err = "none"
    /\ errstate' = [errstate EXCEPT !.divide = "ignore", !.invalid = "ignore"]
    /\ pc' = 52
    /\ UNCHANGED <<err, helsinkiVars, seurasaariS2, ss_red, ss_nir, fpwarnings, ndvi,
                   categoryVars, forestVars>>
    /\ UNCHANGED <<ioVars, cropVars, meanVars>>

\* cell 52: use the formula to calculate NDVI
Cell52 ==
    /\ pc = 52 /\ err = "none"
    /\ IF ~Broadcastable(ss_nir, ss_red)
       THEN /\ err' = "ValueError"
            /\ UNCHANGED <<pc, ndvi, fpwarnings>>
       ELSE LET flags == NdviFlags(ss_nir, ss_red)
            IN  IF \E f \in flags : errstate[f] = "raise"
                THEN /\ err' = "FloatingPointError"
                     /\ UNCHANGED <<pc, ndvi, fpwarnings>>
                ELSE /\ ndvi' = NdviFormula(ss_nir, ss_red)
                     /\ fpwarnings' = fpwarnings \cup {f \in flags : errstate[f] = "warn"}
                     /\ pc' = 54
                     /\ UNCHANGED err
    /\ UNCHANGED <<helsinkiVars, seurasaariS2, ss_red, ss_nir, errstate,
                   categoryVars, forestVars>>
    /\ UNCHANGED <<ioVars, cropVars, meanVars>>

\* reflectance samples: no-data, zero and a value in (0, 1]
ReflectanceSamples == {NaN, Rat(0, 1), Rat(1, 2)}

\* the shapes with at most n pixels
ShapesUpTo(n) == {s \in (1..n) \X (1..n) : s[1] * s[2] <= n}
\* the operand arrays within the bounds, and a one-pixel band of reflectance 0.2
ExampleOperand == <<<<Rat(1, 5)>>>>
Operands ==
    UNION {Arrays(s[1], s[2], ReflectanceSamples) : s \in ShapesUpTo(MaxOperandPixels)}
        \cup {ExampleOperand}

\* the band math of cells 50-52 over every pair of operand arrays within
\* the bounds, in a fresh numpy error state
InitNdvi ==
    /\ pc = 50
    /\ err = "none"
    /\ InitHelsinkiUnset /\ InitCategoryUnset /\ InitForestUnset
    /\ InitIoUnset /\ InitCropUnset /\ InitMeanUnset
    /\ seurasaariS2 = Unset
    /\ ss_nir \in Operands
    /\ ss_red \in Operands
    /\ errstate = DefaultErrState
    /\ fpwarnings = {}
    /\ ndvi = Unset

NextNdvi == Cell50 \/ Cell52

SpecNdvi == InitNdvi /\ [][NextNdvi]_vars

\* C2: for operands of one shape the NDVI cell does not raise, and the
\* result is no-data (so not infinite) at every pixel where an operand is
\* no-data or nir + red is 0.
C2_ZeroDenominator ==
    Shape(ss_nir) = Shape(ss_red) =>
        /\ err = "none"
        /\ pc = 54 =>
              /\ Shape(ndvi) = Shape(ss_nir)
              /\ \A p \in Indices(ss_nir) :
                    (\/ IsNaN(At(ss_nir, p)) \/ IsNaN(At(ss_red, p))
                     \/ At(ss_nir, p)[1] * At(ss_red, p)[2]
                            + At(ss_red, p)[1] * At(ss_nir, p)[2] = 0)
                    => (IsNaN(At(ndvi, p)) /\ ~IsInf(At(ndvi, p)))
C2_Witness ==
    /\ pc = 54 /\ err = "none" /\ Shape(ss_nir) = Shape(ss_red)
    /\ \E p, q, r \in Indices(ss_nir) :
          /\ At(ss_nir, p) = Rat(0, 1) /\ At(ss_red, p) = Rat(0, 1) /\ IsNaN(At(ndvi, p))
          /\ IsNaN(At(ss_red, q)) /\ IsFinite(At(ss_nir, q)) /\ IsNaN(At(ndvi, q))
          /\ IsFinite(At(ndvi, r))

\* every valid sample of the array is >= 0
NonNegative(A) ==
    \A p \in Indices(A) : IsNaN(At(A, p)) \/ FLe(Rat(0, 1), At(A, p))

C3_SuppressionScoped ==
    pc = 54 => errstate = DefaultErrState

CodeSamples == {1, 7}
LabelSamples == {"forest", "water"}
UnparsableRow == [ok |-> FALSE, code |-> 0, label |-> ""]
Rows == {[ok |-> TRUE, code |-> c, label |-> l] : c \in CodeSamples, l \in LabelSamples}
            \cup {UnparsableRow}
Tables == UNION {[1..n -> Rows] : n \in 0..MaxRows}

RECURSIVE BuildFrom(_, _, _)
BuildFrom(table, i, map) ==
    IF i > Len(table) THEN [error |-> "none", map |-> map]
    ELSE IF ~table[i].ok THEN BuildFrom(table, i + 1, map)
    ELSE IF table[i].code \in DOMAIN map
         THEN [error |-> "DuplicateCategoryError", map |-> map]
    ELSE BuildFrom(table, i + 1, map @@ (table[i].code :> table[i].label))

\* stb.get_corine_dict: the category map of a class table, or the error
GetCorineDict(table) == BuildFrom(table, 1, <<>>)

\* zonal records the zonal statistics can deliver: pixel counts per class label
\* (the "count" statistic of a record is the sum of its entries)
ExampleRecord == ("forest" :> 80) @@ ("water" :> 20)
ZonalRecords ==
    UNION {[K -> 0..MaxCount] : K \in SUBSET LabelSamples} \cup {ExampleRecord}

RECURSIVE SumCounts(_, _)
SumCounts(record, keys) ==
    IF keys = {} THEN 0
    ELSE LET k == CHOOSE x \in keys : TRUE
         IN  record[k] + SumCounts(record, keys \ {k})
Total(record) == SumCounts(record, DOMAIN record)

\* round(n / d, 1) for n >= 0, d > 0: the nearest tenth, ties to the even one
RoundTenths(n, d) ==
    LET q == (10 * n) \div d
        r == (10 * n) % d
    IN  Rat(IF 2 * r > d \/ (2 * r = d /\ q % 2 = 1) THEN q + 1 ELSE q, 10)

\* percentages without the check for an empty total: 0 / 0 in every entry
ToPercentages_NoZeroCheck(record) ==
    [k \in DOMAIN record |->
        IF Total(record) = 0 THEN NaN ELSE RoundTenths(100 * record[k], Total(record))]

\* percentages with the ratio rounded to a whole number
ToPercentages_Whole(record) ==
    IF Total(record) = 0 THEN <<>>
    ELSE [k \in DOMAIN record |->
             Rat((100 * record[k] + Total(record) \div 2) \div Total(record), 1)]

\* the percentages of one zonal record
ToPercentages(record) ==
    IF Total(record) = 0 THEN <<>>
    ELSE [k \in DOMAIN record |-> RoundTenths(100 * record[k], Total(record))]

\* stb.get_zonal_stats_percentage(zstats): zstats holds the record of the
\* one Seurasaari polygon
GetZonalStatsPercentage(zs) == ToPercentages(zs[1])

\* cell 65: the category map and the zonal statistics labelled with it
Cell65 ==
    /\ pc = 65 /\ err = "none"
    /\ LET built == GetCorineDict(lookup_table)
       IN  IF built.error # "none"
           THEN /\ err' = built.error
                /\ UNCHANGED <<pc, cat_dict, zstats>>
           ELSE /\ cat_dict' = built.map
                /\ \E record \in ZonalRecords : zstats' = <<record>>
                /\ pc' = 67
                /\ UNCHANGED err
    /\ UNCHANGED <<lookup_table, percentages, helsinkiVars, ndviVars, forestVars>>
    /\ UNCHANGED <<ioVars, cropVars, meanVars>>

\* cell 67 dropping the entries of the category map it has used
Cell67_ConsumesMap ==
    /\ pc = 67 /\ err = "none"
    /\ percentages' = GetZonalStatsPercentage(zstats)
    /\ cat_dict' = <<>>
    /\ pc' = 69
    /\ UNCHANGED <<err, lookup_table, zstats, helsinkiVars, ndviVars, forestVars>>
    /\ UNCHANGED <<ioVars, cropVars, meanVars>>

\* cell 67: percentages for each class
Cell67 ==
    /\ pc = 67 /\ err = "none"
    /\ percentages' = GetZonalStatsPercentage(zstats)
    /\ pc' = 69
    /\ UNCHANGED <<err, lookup_table, cat_dict, zstats, helsinkiVars, ndviVars, forestVars>>
    /\ UNCHANGED <<ioVars, cropVars, meanVars>>

\* cells 65-67 over every class table within the bounds
InitCategory ==
    /\ pc = 65
    /\ err = "none"
    /\ InitHelsinkiUnset /\ InitNdviUnset /\ InitForestUnset
    /\ InitIoUnset /\ InitCropUnset /\ InitMeanUnset
    /\ lookup_table \in Tables
    /\ cat_dict = Unset /\ zstats = Unset /\ percentages = Unset

NextCategory == Cell65 \/ Cell67

SpecCategory == InitCategory /\ [][NextCategory]_vars

\* C6: for a zonal record with a positive total, the result has the keys of
\* the record and every percentage is a multiple of 0.1 within 0.05 of
\* 100 * count / total.
C6_Percentages ==
    pc = 69 /\ Total(zstats[1]) > 0 =>
        /\ DOMAIN percentages = DOMAIN zstats[1]
        /\ \A k \in DOMAIN zstats[1] :
              LET v == percentages[k]
                  t == (v[1] * 10) \div v[2]
              IN  /\ IsFinite(v) /\ 10 % v[2] = 0
                  /\ 2 * Abs(t * Total(zstats[1]) - 1000 * zstats[1][k]) <= Total(zstats[1])
C6_Witness ==
    /\ pc = 69
    /\ zstats[1] = ExampleRecord
    /\ percentages = ("forest" :> Rat(80, 1)) @@ ("water" :> Rat(20, 1))

\* C7: for a zonal record whose total is 0 the result is the empty mapping
\* and the cell does not fail.
C7_ZeroTotal ==
    /\ pc # 65 => err = "none"
    /\ pc = 69 /\ Total(zstats[1]) = 0 => DOMAIN percentages = {}
C7_Witness ==
    /\ pc = 69 /\ err = "none"
    /\ DOMAIN zstats[1] # {} /\ Total(zstats[1]) = 0 /\ DOMAIN percentages = {}

\* two parsable rows of the table carry the same code
HasDuplicateCode(table) ==
    \E i, j \in 1..Len(table) :
        i # j /\ table[i].ok /\ table[j].ok /\ table[i].code = table[j].code
\* the outcome of the build for the table at hand
C9_MapBuilt ==
    pc # 65 \/ err # "none" =>
        IF HasDuplicateCode(lookup_table)
        THEN err = "DuplicateCategoryError"
        ELSE /\ err = "none"
             /\ DOMAIN cat_dict = {lookup_table[i].code : i \in {j \in 1..Len(lookup_table) : lookup_table[j].ok}}
             /\ \A i \in 1..Len(lookup_table) :
                    lookup_table[i].ok => cat_dict[lookup_table[i].code] = lookup_table[i].label

\* C9: a table with two parsable rows of one code stops the build with
\* DuplicateCategoryError; otherwise the map holds exactly the parsable rows,
\* whatever unparsable rows lie between them; and a built map stays as it is.
C9_CategoryMap ==
    /\ []C9_MapBuilt
    /\ [][pc # 65 => cat_dict' = cat_dict]_vars
C9_Witness ==
    /\ pc = 69 /\ err = "none"
    /\ \E i \in 1..Len(lookup_table) : ~lookup_table[i].ok
    /\ DOMAIN cat_dict = CodeSamples


(***************************************************************************)
(* Cells 69-73: the forest codes and the forest mask                       *)
(***************************************************************************)
\* land-cover codes of the Corine raster, and the band and code set of the
\* documented example
CorineCodes == CodeSamples \cup {255}
ExampleBand == <<<<1, 2, 3>>, <<4, 5, 1>>>>
ExampleCodes == {2, 4}
CorineBands ==
    UNION {Arrays(s[1], s[2], CorineCodes) : s \in ShapesUpTo(MaxCorinePixels)}
        \cup {ExampleBand}
ForestCodeSets == (SUBSET CorineCodes) \cup {ExampleCodes}

\* a mask with forest and non-forest exchanged
CreateForestMask_Inverted(array, codes) ==
    Map(LAMBDA c : IF c \in codes THEN 0 ELSE 1, array)

\* stb.create_forest_mask(corine_array, forestcodes): 1 where the value is
\* equal to any of the forest codes, 0 elsewhere
CreateForestMask(array, codes) ==
    Map(LAMBDA c : IF c \in codes THEN 1 ELSE 0, array)

\* cell 69: the codes of the forest classes
Cell69 ==
    /\ pc = 69 /\ err = "none"
    /\ forestcodes' \in ForestCodeSets
    /\ pc' = 71
    /\ UNCHANGED <<err, corine, corine_array, forestmask, helsinkiVars, ndviVars, categoryVars>>
    /\ UNCHANGED <<ioVars, cropVars, meanVars>>

\* cell 71: read the first and only band of the Corine dataset; the dataset
\* object is closed when the with-block is left
Cell71 ==
    /\ pc = 71 /\ err = "none"
    /\ corine' = disk.corine_file
    /\ corine_array' = corine'.band
    /\ handles' = Append(handles, [path |-> "corine_file", open |-> FALSE])
    /\ bound' = [bound EXCEPT !.corine = Len(handles) + 1]
    /\ pc' = 73
    /\ UNCHANGED <<err, forestcodes, forestmask, helsinkiVars, ndviVars, categoryVars>>
    /\ UNCHANGED <<disk, stale_reads, cropVars, meanVars>>

\* cell 73: the forest mask
Cell73 ==
    /\ pc = 73 /\ err = "none"
    /\ forestmask' = CreateForestMask(corine_array, forestcodes)
    /\ pc' = 75
    /\ UNCHANGED <<err, corine, forestcodes, corine_array, helsinkiVars, ndviVars, categoryVars>>
    /\ UNCHANGED <<ioVars, cropVars, meanVars>>

\* the coordinate reference systems a Corine raster may come in
CorineCrs == {"EPSG:3067", "EPSG:32635"}

\* cells 69-73 over every Corine raster within the bounds; cell 60 has opened
\* and closed the raster once
InitForest ==
    /\ pc = 69
    /\ err = "none"
    /\ InitHelsinkiUnset /\ InitNdviUnset /\ InitCategoryUnset
    /\ InitCropUnset /\ InitMeanUnset
    /\ corine \in [band : CorineBands, nodata : CorineCodes,
                    crs : CorineCrs, transform : {<<0, 0>>}]
    /\ disk = [corine_file |-> corine]
    /\ handles = <<[path |-> "corine_file", open |-> FALSE]>>
    /\ bound = [NoHandle EXCEPT !.corine = 1]
    /\ stale_reads = {}
    /\ forestcodes = {} /\ corine_array = Unset /\ forestmask = Unset

NextForest == Cell69 \/ Cell71 \/ Cell73

SpecForest == InitForest /\ [][NextForest]_vars

CrsOrigin(crs) ==
    CASE crs = "EPSG:4326"  -> <<0, 0>>
      [] crs = "EPSG:32635" -> <<0, 2>>
      [] crs = "EPSG:3067"  -> <<1, 1>>

\* coordinates in the system `to` of the cell with coordinates p in `from`
Transform(p, from, to) ==
    <<p[1] + CrsOrigin(from)[1] - CrsOrigin(to)[1],
      p[2] + CrsOrigin(from)[2] - CrsOrigin(to)[2]>>

\* GeoDataFrame.to_crs on one geometry
ToCrs(geometry, from, to) == {Transform(p, from, to) : p \in geometry}

\* the cell covered by pixel p of a raster with the given transform
PixelCell(transform, p) == <<transform[1] + p[1], transform[2] + p[2]>>

MinOf(S) == CHOOSE x \in S : \A y \in S : x <= y
MaxOf(S) == CHOOSE x \in S : \A y \in S : x >= y

\* the dataset behind dataset object h
Dataset(h) == disk[handles[h].path]

\* the cells covered by a list of features
Covered(features) == UNION {features[i].cells : i \in DOMAIN features}

\* a number as a sample of the given dtype
AsDType(n, dtype) == IF dtype = "float64" THEN Rat(n, 1) ELSE n

\* rasterio.mask.mask(dataset, shapes, crop=True, nodata=...): the window is the
\* bounding box of the shapes clipped to the raster; a pixel keeps its value
\* when a shape covers it and it is not the dataset's no-data value, and gets
\* the fill value otherwise.  The argument nodata is a set, empty when the
\* argument is not given.
Mask(dataset, features, nodata) ==
    LET meta    == dataset.meta
        covered == Covered(features)
        rows    == {p[1] - meta.transform[1] : p \in covered}
        cols    == {p[2] - meta.transform[2] : p \in covered}
    IN  IF covered = {} THEN [error |-> "ValueError"]
        ELSE
        LET top    == Max(MinOf(rows), 1)
            bottom == IF MaxOf(rows) < meta.height THEN MaxOf(rows) ELSE meta.height
            left   == Max(MinOf(cols), 1)
            right  == IF MaxOf(cols) < meta.width THEN MaxOf(cols) ELSE meta.width
            fill   == IF nodata # {} THEN CHOOSE v \in nodata : TRUE
                      ELSE IF meta.nodata # {}
                           THEN AsDType(CHOOSE n \in meta.nodata : TRUE, meta.dtype)
                           ELSE AsDType(0, meta.dtype)
            IsNoData(v) == \E n \in meta.nodata :
                              IF meta.dtype = "float64" THEN FEq(v, Rat(n, 1)) ELSE v = n
        IN  IF top > bottom \/ left > right THEN [error |-> "ValueError"]
            ELSE [error |-> "none",
                  image |-> [b \in DOMAIN dataset.bands |->
                               [r \in 1..(bottom - top + 1) |->
                                  [c \in 1..(right - left + 1) |->
                                     LET p == <<top + r - 1, left + c - 1>>
                                         v == At(dataset.bands[b], p)
                                     IN  IF PixelCell(meta.transform, p) \in covered
                                            /\ ~IsNoData(v)
                                         THEN v ELSE fill]]],
                  transform |-> <<meta.transform[1] + top - 1,
                                  meta.transform[2] + left - 1>>]

\* an attribute read (meta, crs, transform, count) through dataset object h in
\* cell c: a closed dataset object still answers it
AttributeReads(c, h) == IF handles[h].open THEN {} ELSE {<<c, h>>}

\* rasterio.open(path, "w", **meta) as dest: dest.write(bands), closed on leaving
WriteRaster(path, meta, bands) ==
    /\ disk' = (path :> [meta |-> meta, bands |-> bands]) @@ disk
    /\ handles' = Append(handles, [path |-> path, open |-> FALSE])
    /\ bound' = [bound EXCEPT !.dest = Len(handles) + 1]

(***************************************************************************)
(* Cells 5-11 and 31-49: open the Helsinki raster, crop it to Seurasaari   *)
(***************************************************************************)
\* cell 5: open the downloaded file with rasterio
Cell5 ==
    /\ pc = 5 /\ err = "none"
    /\ handles' = Append(handles, [path |-> "s2file", open |-> TRUE])
    /\ bound' = [bound EXCEPT !.s2open = Len(handles) + 1]
    /\ s2open' = disk.s2file.bands
    /\ pc' = 8
    /\ UNCHANGED <<err, nir, red, green, arrays, names, falsecolor_stack,
                   stretchnir, stretchred, stretchgreen>>
    /\ UNCHANGED <<ndviVars, categoryVars, forestVars, disk, stale_reads, cropVars, meanVars>>

\* cell 8: s2open.meta
Cell8 ==
    /\ pc = 8 /\ err = "none"
    /\ stale_reads' = stale_reads \cup AttributeReads(8, bound.s2open)
    /\ pc' = 11
    /\ UNCHANGED <<err, helsinkiVars, ndviVars, categoryVars, forestVars>>
    /\ UNCHANGED <<disk, handles, bound, cropVars, meanVars>>

\* cell 11: show(s2open, 4) reads band 4
Cell11 ==
    /\ pc = 11 /\ err = "none"
    /\ IF handles[bound.s2open].open
       THEN pc' = 13 /\ UNCHANGED <<err, stale_reads>>
       ELSE ReadOfClosed(11, bound.s2open) /\ UNCHANGED pc
    /\ UNCHANGED <<helsinkiVars, ndviVars, categoryVars, forestVars>>
    /\ UNCHANGED <<disk, handles, bound, cropVars, meanVars>>

\* cell 31: the composite of the stretched bands
Cell31 ==
    /\ pc = 31 /\ err = "none"
    /\ stretchstack' = DStack(stretchnir, stretchred, stretchgreen)
    /\ pc' = 33
    /\ UNCHANGED <<err, helsinkiVars, ndviVars, categoryVars, forestVars, ioVars, meanVars>>
    /\ UNCHANGED <<ss_falsecolorstack, seurasaari_df, seurasaari_coords, seurasaariS2_array,
                   seurasaariS2_transform, seurasaariS2_meta, ndvi_meta, mask_calls>>

\* the footprints OpenStreetMap may give for Seurasaari, in EPSG:4326
\* coordinates: the nonempty sets of cells of the strip that begins one cell
\* before the Helsinki raster and ends with it
OsmGeometries ==
    (SUBSET {<<1, c>> : c \in 2..(RunPixels + 2)}) \ {{}}

\* cell 33: the Seurasaari polygon from OpenStreetMap; osmnx delivers EPSG:4326
Cell33 ==
    /\ pc = 33 /\ err = "none"
    /\ \E g \in OsmGeometries : seurasaari_df' = [crs |-> "EPSG:4326", geometry |-> g]
    /\ pc' = 36
    /\ UNCHANGED <<err, helsinkiVars, ndviVars, categoryVars, forestVars, ioVars, meanVars>>
    /\ UNCHANGED <<stretchstack, ss_falsecolorstack, seurasaari_coords, seurasaariS2_array,
                   seurasaariS2_transform, seurasaariS2_meta, ndvi_meta, mask_calls>>

\* cell 36 without the reprojection
Cell36_NoReprojection ==
    /\ pc = 36 /\ err = "none"
    /\ stale_reads' = stale_reads \cup AttributeReads(36, bound.s2open)
    /\ pc' = 38
    /\ UNCHANGED <<err, helsinkiVars, ndviVars, categoryVars, forestVars, meanVars>>
    /\ UNCHANGED <<disk, handles, bound, cropVars>>

\* cell 36: reproject polygon to raster crs
Cell36 ==
    /\ pc = 36 /\ err = "none"
    /\ LET crs == Dataset(bound.s2open).meta.crs
       IN  seurasaari_df' = [crs |-> crs,
                             geometry |-> ToCrs(seurasaari_df.geometry, seurasaari_df.crs, crs)]
    /\ stale_reads' = stale_reads \cup AttributeReads(36, bound.s2open)
    /\ pc' = 38
    /\ UNCHANGED <<err, helsinkiVars, ndviVars, categoryVars, forestVars, meanVars>>
    /\ UNCHANGED <<disk, handles, bound>>
    /\ UNCHANGED <<stretchstack, ss_falsecolorstack, seurasaari_coords, seurasaariS2_array,
                   seurasaariS2_transform, seurasaariS2_meta, ndvi_meta, mask_calls>>

\* stb.getFeatures: the geometries of a geodataframe as a list of features;
\* the coordinates carry no CRS, the field crs records the system they are in
GetFeatures(gdf) == <<[crs |-> gdf.crs, cells |-> gdf.geometry]>>

\* cell 38: the features of the polygon
Cell38 ==
    /\ pc = 38 /\ err = "none"
    /\ seurasaari_coords' = GetFeatures(seurasaari_df)
    /\ pc' = 39
    /\ UNCHANGED <<err, helsinkiVars, ndviVars, categoryVars, forestVars, ioVars, meanVars>>
    /\ UNCHANGED <<stretchstack, ss_falsecolorstack, seurasaari_df, seurasaariS2_array,
                   seurasaariS2_transform, seurasaariS2_meta, ndvi_meta, mask_calls>>

\* the record of one call of rasterio.mask.mask
MaskCall(c, dataset, features) ==
    [cell |-> c, raster_crs |-> dataset.meta.crs,
     shapes_crs |-> {features[i].crs : i \in DOMAIN features}]

\* cell 39: use the mask function to crop the Sentinel-2 image
Cell39 ==
    /\ pc = 39 /\ err = "none"
    /\ IF ~handles[bound.s2open].open
       THEN /\ ReadOfClosed(39, bound.s2open)
            /\ UNCHANGED <<pc, seurasaariS2_array, seurasaariS2_transform, mask_calls>>
       ELSE LET dataset == Dataset(bound.s2open)
                result  == Mask(dataset, seurasaari_coords, {})
            IN  /\ mask_calls' = Append(mask_calls, MaskCall(39, dataset, seurasaari_coords))
                /\ UNCHANGED stale_reads
                /\ IF result.error # "none"
                   THEN /\ err' = result.error
                        /\ UNCHANGED <<pc, seurasaariS2_array, seurasaariS2_transform>>
                   ELSE /\ seurasaariS2_array' = result.image
                        /\ seurasaariS2_transform' = result.transform
                        /\ pc' = 41
                        /\ UNCHANGED err
    /\ UNCHANGED <<helsinkiVars, ndviVars, categoryVars, forestVars, meanVars>>
    /\ UNCHANGED <<disk, handles, bound>>
    /\ UNCHANGED <<stretchstack, ss_falsecolorstack, seurasaari_df, seurasaari_coords,
                   seurasaariS2_meta, ndvi_meta>>

\* cell 41 writing the cropped array under the metadata of the whole raster
Cell41_SourceMeta ==
    /\ pc = 41 /\ err = "none"
    /\ seurasaariS2_meta' = Dataset(bound.s2open).meta
    /\ WriteRaster("seurasaariS2_file", seurasaariS2_meta', seurasaariS2_array)
    /\ stale_reads' = stale_reads \cup AttributeReads(41, bound.s2open)
    /\ pc' = 43
    /\ UNCHANGED <<err, helsinkiVars, ndviVars, categoryVars, forestVars, meanVars>>
    /\ UNCHANGED <<stretchstack, ss_falsecolorstack, seurasaari_df, seurasaari_coords,
                   seurasaariS2_array, seurasaariS2_transform, ndvi_meta, mask_calls>>

\* cell 41: copy the metadata of the original, update it to the cropped array
\* and write the file
Cell41 ==
    /\ pc = 41 /\ err = "none"
    /\ seurasaariS2_meta' =
          [Dataset(bound.s2open).meta EXCEPT !.height = Len(seurasaariS2_array[1]),
                                             !.width = Len(seurasaariS2_array[1][1]),
                                             !.transform = seurasaariS2_transform]
    /\ WriteRaster("seurasaariS2_file", seurasaariS2_meta', seurasaariS2_array)
    /\ stale_reads' = stale_reads \cup AttributeReads(41, bound.s2open)
    /\ pc' = 43
    /\ UNCHANGED <<err, helsinkiVars, ndviVars, categoryVars, forestVars, meanVars>>
    /\ UNCHANGED <<stretchstack, ss_falsecolorstack, seurasaari_df, seurasaari_coords,
                   seurasaariS2_array, seurasaariS2_transform, ndvi_meta, mask_calls>>

\* cell 43: s2open.close()
Cell43 ==
    /\ pc = 43 /\ err = "none"
    /\ handles' = [handles EXCEPT ![bound.s2open].open = FALSE]
    /\ pc' = 45
    /\ UNCHANGED <<err, helsinkiVars, ndviVars, categoryVars, forestVars>>
    /\ UNCHANGED <<disk, bound, stale_reads, cropVars, meanVars>>

\* cell 45: open the cropped raster file, print its band count and show band 4
Cell45 ==
    /\ pc = 45 /\ err = "none"
    /\ handles' = Append(handles, [path |-> "seurasaariS2_file", open |-> TRUE])
    /\ bound' = [bound EXCEPT !.seurasaariS2 = Len(handles) + 1]
    /\ seurasaariS2' = disk.seurasaariS2_file.bands
    /\ pc' = 46
    /\ UNCHANGED <<err, helsinkiVars, ss_red, ss_nir, errstate, fpwarnings, ndvi>>
    /\ UNCHANGED <<categoryVars, forestVars, disk, stale_reads, cropVars, meanVars>>

\* stb.read_band: the band as reflectance, prepared as the Helsinki bands were
ReadBand(bands, i) == ReplaceZeroWithNaN(Rescale(bands[i]))

\* stb.make_false_color_stack: the composite of the prepared bands 4, 3, 2
MakeFalseColorStack(bands) ==
    DStack(ReadBand(bands, 4), ReadBand(bands, 3), ReadBand(bands, 2))

\* cell 46: the false color composite of Seurasaari
Cell46 ==
    /\ pc = 46 /\ err = "none"
    /\ IF handles[bound.seurasaariS2].open
       THEN /\ ss_falsecolorstack' = MakeFalseColorStack(seurasaariS2)
            /\ pc' = 49
            /\ UNCHANGED <<err, stale_reads>>
       ELSE /\ ReadOfClosed(46, bound.seurasaariS2)
            /\ UNCHANGED <<pc, ss_falsecolorstack>>
    /\ UNCHANGED <<helsinkiVars, ndviVars, categoryVars, forestVars, meanVars>>
    /\ UNCHANGED <<disk, handles, bound>>
    /\ UNCHANGED <<stretchstack, seurasaari_df, seurasaari_coords, seurasaariS2_array,
                   seurasaariS2_transform, seurasaariS2_meta, ndvi_meta, mask_calls>>

\* cell 49: open the Seurasaari geotif again and read the red and the nir band
Cell49 ==
    /\ pc = 49 /\ err = "none"
    /\ handles' = Append(handles, [path |-> "seurasaariS2_file", open |-> TRUE])
    /\ bound' = [bound EXCEPT !.seurasaariS2 = Len(handles) + 1]
    /\ seurasaariS2' = disk.seurasaariS2_file.bands
    /\ ss_red' = ReadBand(seurasaariS2', 3)
    /\ ss_nir' = ReadBand(seurasaariS2', 4)
    /\ pc' = 50
    /\ UNCHANGED <<err, helsinkiVars, errstate, fpwarnings, ndvi>>
    /\ UNCHANGED <<categoryVars, forestVars, disk, stale_reads, cropVars, meanVars>>

(***************************************************************************)
(* Cells 54-62: the NDVI file and the Corine raster                        *)
(***************************************************************************)
\* cell 54: plot the NDVI
Cell54 ==
    /\ pc = 54 /\ err = "none"
    /\ pc' = 56
    /\ UNCHANGED <<err, helsinkiVars, ndviVars, categoryVars, forestVars>>
    /\ UNCHANGED <<ioVars, cropVars, meanVars>>

\* cell 56: copy the metadata of the cropped raster, set band count and dtype,
\* write the NDVI array to geotif
Cell56 ==
    /\ pc = 56 /\ err = "none"
    /\ ndvi_meta' = [Dataset(bound.seurasaariS2).meta EXCEPT !.count = 1, !.dtype = "float64"]
    /\ WriteRaster("ndvi_file", ndvi_meta', <<ndvi>>)
    /\ stale_reads' = stale_reads \cup AttributeReads(56, bound.seurasaariS2)
    /\ pc' = 60
    /\ UNCHANGED <<err, helsinkiVars, ndviVars, categoryVars, forestVars, meanVars>>
    /\ UNCHANGED <<stretchstack, ss_falsecolorstack, seurasaari_df, seurasaari_coords,
                   seurasaariS2_array, seurasaariS2_transform, seurasaariS2_meta, mask_calls>>

\* cell 60: show the Corine raster; the dataset object is closed when the
\* with-block is left
Cell60 ==
    /\ pc = 60 /\ err = "none"
    /\ corine' = disk.corine_file
    /\ handles' = Append(handles, [path |-> "corine_file", open |-> FALSE])
    /\ bound' = [bound EXCEPT !.corine = Len(handles) + 1]
    /\ pc' = 62
    /\ UNCHANGED <<err, forestcodes, corine_array, forestmask>>
    /\ UNCHANGED <<helsinkiVars, ndviVars, categoryVars, disk, stale_reads, cropVars, meanVars>>

\* rasterstats.zonal_stats(gdf, raster, categorical=True): for the polygon,
\* the number of pixels of each code among the pixels it covers; the
\* coordinates of the polygon are taken as coordinates of the raster's CRS
ZonalStats(gdf, raster) ==
    LET inside == {p \in Indices(raster.band) :
                      /\ PixelCell(raster.transform, p) \in gdf.geometry
                      /\ At(raster.band, p) # raster.nodata}
        codes  == {At(raster.band, p) : p \in inside}
    IN  <<[k \in codes |-> Cardinality({p \in inside : At(raster.band, p) = k})]>>

\* cell 62: zonal statistics of the Corine codes within the polygon
Cell62 ==
    /\ pc = 62 /\ err = "none"
    /\ zstats' = ZonalStats(seurasaari_df, disk.corine_file)
    /\ pc' = 65
    /\ UNCHANGED <<err, lookup_table, cat_dict, percentages>>
    /\ UNCHANGED <<helsinkiVars, ndviVars, forestVars, ioVars, cropVars, meanVars>>

(***************************************************************************)
(* Cells 75-77: forest polygons and the mean NDVI within them              *)
(***************************************************************************)
Adjacent(p, q) == Abs(p[1] - q[1]) + Abs(p[2] - q[2]) = 1

\* the connected region of equal value that contains the pixels S
RECURSIVE Region(_, _)
Region(A, S) ==
    LET T == S \cup {q \in Indices(A) :
                        \E p \in S : Adjacent(p, q) /\ At(A, q) = At(A, p)}
    IN  IF T = S THEN S ELSE Region(A, T)

\* the first pixel of a set of pixels in row-major order
FirstPixel(S) ==
    CHOOSE p \in S : \A q \in S : p[1] < q[1] \/ (p[1] = q[1] /\ p[2] <= q[2])

\* rasterio.features.shapes(A, transform=...): one polygon per connected
\* region of equal value, with the value, in the order of their first pixels
RECURSIVE ShapesFrom(_, _, _)
ShapesFrom(A, transform, todo) ==
    IF todo = {} THEN <<>>
    ELSE LET R == Region(A, {FirstPixel(todo)})
         IN  <<[raster_val |-> At(A, FirstPixel(todo)),
                cells |-> {PixelCell(transform, p) : p \in R}]>>
             \o ShapesFrom(A, transform, todo \ R)
FeaturesShapes(A, transform) == ShapesFrom(A, transform, Indices(A))

\* cell 75: store the connected regions of the mask as polygons with the
\* raster value as field, georeferenced by the transform and the crs of the
\* Corine dataset object
Cell75 ==
    /\ pc = 75 /\ err = "none"
    /\ disk' = ("forestmask_file" :>
                   [crs |-> corine.crs,
                    records |-> FeaturesShapes(forestmask, corine.transform)]) @@ disk
    /\ stale_reads' = stale_reads \cup AttributeReads(75, bound.corine)
    /\ pc' = 77
    /\ UNCHANGED <<err, helsinkiVars, ndviVars, categoryVars, forestVars>>
    /\ UNCHANGED <<handles, bound, cropVars, meanVars>>

\* stb.get_reprojected_shapefilename: the shapefile with its polygons
\* reprojected to the given CRS
ReprojectedShapefile(crs, shapefile) ==
    [crs |-> crs,
     records |-> [i \in DOMAIN shapefile.records |->
                    [raster_val |-> shapefile.records[i].raster_val,
                     cells |-> ToCrs(shapefile.records[i].cells, shapefile.crs, crs)]]]

\* the polygons of a shapefile whose field raster_val has the given value
RECURSIVE Select(_, _, _)
Select(shapefile, v, i) ==
    IF i > Len(shapefile.records) THEN <<>>
    ELSE (IF shapefile.records[i].raster_val = v
          THEN <<[crs |-> shapefile.crs, cells |-> shapefile.records[i].cells]>>
          ELSE <<>>) \o Select(shapefile, v, i + 1)

\* the samples of a stack of bands that are not NaN, in any order
RECURSIVE SumOver(_, _)
SumOver(image, todo) ==
    IF todo = {} THEN Rat(0, 1)
    ELSE LET t == CHOOSE x \in todo : TRUE
         IN  FAdd(image[t[1]][t[2]][t[3]], SumOver(image, todo \ {t}))

\* np.nanmean: the mean of the samples that are not NaN; NaN when there is none
NanMean(image) ==
    LET valid == {t \in {<<b, p[1], p[2]>> : b \in DOMAIN image, p \in Indices(image[1])} :
                     ~IsNaN(image[t[1]][t[2]][t[3]])}
    IN  IF valid = {} THEN NaN
        ELSE FDiv(SumOver(image, valid), Rat(Cardinality(valid), 1))

\* cell 77 selecting the polygons of value 0
Cell77_NonForest ==
    /\ pc = 77 /\ err = "none"
    /\ LET h         == Len(handles) + 1
           dataset   == disk.ndvi_file
           shapefile == ReprojectedShapefile(dataset.meta.crs, disk.forestmask_file)
           result    == Mask(dataset, shapes', {NaN})
       IN  /\ handles' = Append(handles, [path |-> "ndvi_file", open |-> FALSE])
           /\ bound' = [bound EXCEPT !.ndvi = h]
           /\ ndvi' = Unset
           /\ disk' = ("reprojected_file" :> shapefile) @@ disk
           /\ shapes' = Select(shapefile, 0, 1)
           /\ mask_calls' = Append(mask_calls, MaskCall(77, dataset, shapes'))
           /\ IF result.error # "none"
              THEN /\ err' = result.error
                   /\ UNCHANGED <<pc, ndvi_forest, ndvi_forest_transform, printed>>
              ELSE /\ ndvi_forest' = result.image
                   /\ ndvi_forest_transform' = result.transform
                   /\ printed' = NanMean(ndvi_forest')
                   /\ pc' = 79
                   /\ UNCHANGED err
    /\ UNCHANGED <<helsinkiVars, seurasaariS2, ss_red, ss_nir, errstate, fpwarnings>>
    /\ UNCHANGED <<categoryVars, forestVars, stale_reads>>
    /\ UNCHANGED <<stretchstack, ss_falsecolorstack, seurasaari_df, seurasaari_coords,
                   seurasaariS2_array, seurasaariS2_transform, seurasaariS2_meta, ndvi_meta>>

\* cell 77: open the NDVI file, mask out what is not forest and print the mean;
\* the name ndvi now holds the dataset object, closed when the with-block is left
Cell77 ==
    /\ pc = 77 /\ err = "none"
    /\ LET h         == Len(handles) + 1
           dataset   == disk.ndvi_file
           shapefile == ReprojectedShapefile(dataset.meta.crs, disk.forestmask_file)
           result    == Mask(dataset, shapes', {NaN})
       IN  /\ handles' = Append(handles, [path |-> "ndvi_file", open |-> FALSE])
           /\ bound' = [bound EXCEPT !.ndvi = h]
           /\ ndvi' = Unset
           /\ disk' = ("reprojected_file" :> shapefile) @@ disk
           /\ shapes' = Select(shapefile, 1, 1)
           /\ mask_calls' = Append(mask_calls, MaskCall(77, dataset, shapes'))
           /\ IF result.error # "none"
              THEN /\ err' = result.error
                   /\ UNCHANGED <<pc, ndvi_forest, ndvi_forest_transform, printed>>
              ELSE /\ ndvi_forest' = result.image
                   /\ ndvi_forest_transform' = result.transform
                   /\ printed' = NanMean(ndvi_forest')
                   /\ pc' = 79
                   /\ UNCHANGED err
    /\ UNCHANGED <<helsinkiVars, seurasaariS2, ss_red, ss_nir, errstate, fpwarnings>>
    /\ UNCHANGED <<categoryVars, forestVars, stale_reads>>
    /\ UNCHANGED <<stretchstack, ss_falsecolorstack, seurasaari_df, seurasaari_coords,
                   seurasaariS2_array, seurasaariS2_transform, seurasaariS2_meta, ndvi_meta>>

(***************************************************************************)
(* The notebook run from the first to the last cell                        *)
(***************************************************************************)
\* digital numbers that run through the raw samples along a row
Ramp(i) == CASE i % 3 = 0 -> 0
             [] i % 3 = 1 -> Scale \div 2
             [] i % 3 = 2 -> Scale + 2000

\* Helsinki rasters of four bands and one row: blue, green and red of
\* reflectance 0.5, near infrared running through the raw samples
RunRasters ==
    {[b \in 1..4 |-> <<[c \in 1..RunPixels |->
                          IF b = 4 THEN Ramp(c + k) ELSE Scale \div 2]>>] : k \in 0..2}

\* the metadata of a Helsinki raster: uint16, UTM zone 35N, with the no-data
\* value 0 declared or with none declared
S2Metas ==
    {[driver |-> "GTiff", dtype |-> "uint16", nodata |-> nd, width |-> RunPixels,
      height |-> 1, count |-> 4, crs |-> "EPSG:32635", transform |-> <<0, 0>>] :
        nd \in {{}, {0}}}

\* Corine rasters over the ground of the Helsinki raster, the codes
\* alternating along the row, in each of the reference systems
RunCorine ==
    {[band |-> <<[c \in 1..RunPixels |-> IF c % 2 = 1 THEN 1 ELSE 7]>>, nodata |-> 255,
      crs |-> crs, transform |-> Transform(<<0, 0>>, "EPSG:32635", crs)] : crs \in CorineCrs}

\* a class table with one label for each code
RunTable ==
    <<[ok |-> TRUE, code |-> 1, label |-> "forest"], [ok |-> TRUE, code |-> 7, label |-> "water"]>>

InitRun ==
    /\ pc = 5
    /\ err = "none"
    /\ InitHelsinkiUnset /\ InitCropUnset /\ InitMeanUnset
    /\ seurasaariS2 = Unset /\ ss_red = Unset /\ ss_nir = Unset /\ ndvi = Unset
    /\ errstate = DefaultErrState /\ fpwarnings = {}
    /\ lookup_table = RunTable
    /\ cat_dict = Unset /\ zstats = Unset /\ percentages = Unset
    /\ InitForestUnset
    /\ \E meta \in S2Metas, bands \in RunRasters, cor \in RunCorine :
          disk = [s2file |-> [meta |-> meta, bands |-> bands], corine_file |-> cor]
    /\ handles = <<>> /\ bound = NoHandle /\ stale_reads = {}

NextRun ==
    \/ Cell5 \/ Cell8 \/ Cell11 \/ Cell13 \/ Cell15 \/ Cell17 \/ Cell22 \/ Cell29
    \/ Cell31 \/ Cell33 \/ Cell36 \/ Cell38 \/ Cell39 \/ Cell41 \/ Cell43 \/ Cell45
    \/ Cell46 \/ Cell49 \/ Cell50 \/ Cell52 \/ Cell54 \/ Cell56 \/ Cell60 \/ Cell62
    \/ Cell65 \/ Cell67 \/ Cell69 \/ Cell71 \/ Cell73 \/ Cell75 \/ Cell77

SpecRun == InitRun /\ [][NextRun]_vars

\* the raster file f holds the bands it was written from, with as many bands,
\* rows and columns as its metadata say
HoldsArray(f, bands) ==
    /\ f.bands = bands
    /\ f.meta.count = Len(bands)
    /\ \A b \in DOMAIN bands : Shape(bands[b]) = <<f.meta.height, f.meta.width>>

\* every pixel of the raster file f lies, by f's transform, on a cell of the
\* raster src and holds the sample src has there or the fill value 0
GeoreferencedIn(f, src) ==
    \A b \in DOMAIN f.bands : \A p \in Indices(f.bands[b]) :
        LET cell == PixelCell(f.meta.transform, p)
            q    == <<cell[1] - src.meta.transform[1], cell[2] - src.meta.transform[2]>>
        IN  /\ q \in Indices(src.bands[b])
            /\ At(f.bands[b], p) \in {At(src.bands[b], q), 0}

\* C11: the cropped file carries the height, width and transform of the
\* cropped array and otherwise the metadata of the Helsinki raster; the NDVI
\* file carries band count 1 and dtype float64 and otherwise the metadata of
\* the cropped raster; each file holds the array written under that metadata.
C11_WriteMetadata ==
    /\ pc > 41 =>
          LET f == disk.seurasaariS2_file
          IN  /\ HoldsArray(f, seurasaariS2_array)
              /\ f.meta = [disk.s2file.meta EXCEPT !.height = f.meta.height,
                                                   !.width = f.meta.width,
                                                   !.transform = seurasaariS2_transform]
              /\ GeoreferencedIn(f, disk.s2file)
    /\ pc > 56 /\ bound.ndvi = 0 =>
          LET f == disk.ndvi_file
          IN  /\ HoldsArray(f, <<ndvi>>)
              /\ f.meta = [disk.seurasaariS2_file.meta EXCEPT !.count = 1,
                                                              !.dtype = "float64"]
C11_Witness ==
    /\ pc = 60
    /\ disk.seurasaariS2_file.meta.width < disk.s2file.meta.width
    /\ disk.seurasaariS2_file.meta.transform # disk.s2file.meta.transform
    /\ disk.ndvi_file.meta.count < disk.seurasaariS2_file.meta.count

\* C12: every call of the masking function so far got polygons in the CRS of
\* the raster it masks.
C12_ReprojectedBeforeMask ==
    \A i \in DOMAIN mask_calls : mask_calls[i].shapes_crs \subseteq {mask_calls[i].raster_crs}
C12_Witness ==
    /\ pc = 79
    /\ Len(mask_calls) = 2
    /\ mask_calls[1].shapes_crs # {} /\ mask_calls[2].shapes_crs # {}
    /\ disk.forestmask_file.crs # disk.ndvi_file.meta.crs

\* C16: no cell has read through a dataset object that was closed.
C16_NoReadAfterClose == stale_reads = {}

\* C17: when the last cell has run, every dataset object that was opened is
\* closed.
C17_AllClosed == pc = 79 => \A h \in DOMAIN handles : ~handles[h].open

\* the cells of the forest mask's pixels of value 1, in the coordinates of crs
ForestCells(crs) ==
    {Transform(PixelCell(corine.transform, p), corine.crs, crs) :
        p \in {q \in Indices(forestmask) : At(forestmask, q) = 1}}
\* the forest pixels of the NDVI file that hold a value
ForestSamples ==
    LET f == disk.ndvi_file
    IN  {t \in {<<1, p[1], p[2]>> : p \in Indices(f.bands[1])} :
            /\ PixelCell(f.meta.transform, <<t[2], t[3]>>) \in ForestCells(f.meta.crs)
            /\ ~IsNaN(f.bands[1][t[2]][t[3]])
            /\ \A n \in f.meta.nodata : ~FEq(f.bands[1][t[2]][t[3]], Rat(n, 1))}

\* C18: the polygons passed to the masking call cover forest-mask pixels of
\* value 1 only, every pixel of the masked array outside them is NaN, and
\* the printed mean is the mean of the valid NDVI samples inside them.
C18_ForestOnlyMean ==
    pc = 79 =>
        /\ Covered(shapes) = ForestCells(disk.ndvi_file.meta.crs)
        /\ \A p \in Indices(ndvi_forest[1]) :
              PixelCell(ndvi_forest_transform, p) \notin ForestCells(disk.ndvi_file.meta.crs)
                  => IsNaN(At(ndvi_forest[1], p))
        /\ printed = IF ForestSamples = {} THEN NaN
                     ELSE FDiv(SumOver(disk.ndvi_file.bands, ForestSamples),
                               Rat(Cardinality(ForestSamples), 1))
C18_Witness ==
    /\ pc = 79
    /\ IsFinite(printed)
    /\ \E i \in DOMAIN disk.forestmask_file.records :
          disk.forestmask_file.records[i].raster_val = 0
    /\ \E p \in Indices(ndvi_forest[1]) :
          LET cell == PixelCell(ndvi_forest_transform, p)
              q    == <<cell[1] - disk.ndvi_file.meta.transform[1],
                        cell[2] - disk.ndvi_file.meta.transform[2]>>
          IN  /\ cell \notin ForestCells(disk.ndvi_file.meta.crs)
              /\ IsFinite(At(disk.ndvi_file.bands[1], q))
              /\ IsNaN(At(ndvi_forest[1], p))
====
